---- MODULE Spec2Model ----
(***************************************************************************)
(* Model of the audio transcription / LLM summarization backend:           *)
(*   backend/app/services/summarization.py  (generate_summary, the         *)
(*                                            summary-section parser)      *)
(*   backend/app/main.py                     (POST /transcribe handler)    *)
(*   backend/app/services/transcription.py   (TranscriptionService)        *)
(* Python strings are TLA+ strings; Python lists are sequences.            *)
(***************************************************************************)
EXTENDS Integers, Sequences, FiniteSets, TLC

VARIABLES
    \* SummarizationService.generate_summary
    family,           \* which bounded set the LLM response texts are drawn from
    text,             \* the `text` argument
    gs_pc,            \* position in the function body
    requests,         \* number of POST /api/generate requests sent
    reply,            \* what requests.post did (raised, or the response)
    summary_text,     \* response.json()["response"]
    lines,            \* the part of summary_text.split('\n') not yet iterated
    current_section,  \* parser: current_section ("none" models None)
    current_points,   \* parser: current_points
    sections,         \* parser: the sections dict
    result,           \* the record generate_summary returned
    exc,              \* the exception caught by generate_summary's except clause
    \* POST /transcribe (main.py) and the transcription service
    h_pc,             \* position of the handler
    served,           \* requests answered so far
    llm_name,         \* model_info.llm_name
    whisper_model,    \* model_info.whisper_model
    now,              \* time.time()
    start_time,
    transcription_time,
    transcription,    \* what transcription_service.transcribe returned
    transcribe_calls, \* calls of transcribe made for the current request
    summarize_calls,  \* calls of generate_summary made for the current request
    generate_requests, \* the /api/generate requests sent for the current request
    raised_by,        \* the stage whose exception reached the handler
    h_exc,            \* that exception
    response,         \* the HTTP response of the current request
    ts_model,         \* TranscriptionService.model ("none" models None)
    ts_model_size,    \* TranscriptionService.model_size
    \* TranscriptionService.transcribe, statement by statement
    overlap,          \* whether a call may start while another awaits its upload
    t_calls,          \* the transcribe calls: position, argument, locals, outcome
    running,          \* the call the event loop is running (0: none)
    files,            \* the temporary files that exist on disk
    resident,         \* the speech model objects alive in memory, by size
    \* SummarizationService.load_model and the LLM server
    ss_model,         \* SummarizationService.model ("none" models None)
    server_models,    \* names of the models the LLM server holds
    lm_calls,         \* load_model calls made so far
    lm_log,           \* the requests load_model sent, in order, with their outcome
    lm_exc            \* the exception that left the last load_model call

gsVars == <<family, text, gs_pc, requests, reply, summary_text, lines,
            current_section, current_points, sections, result, exc>>

apiVars == <<h_pc, served, llm_name, whisper_model, now, start_time,
             transcription_time, transcription, transcribe_calls,
             summarize_calls, generate_requests, raised_by, h_exc, response,
             ts_model, ts_model_size>>

trVars == <<overlap, t_calls, running, files, resident>>

lmVars == <<ss_model, server_models, lm_calls, lm_log, lm_exc>>

vars == <<gsVars, apiVars, trVars, lmVars>>

-----------------------------------------------------------------------------
(* Bounds of the model *)

\* longest LLM response, in lines, of the free-form family
MaxLines == 3
\* most bullet lines under one heading in the structured family
MaxBullets == 2
\* most speech segments the speech model returns for one upload
MaxSegments == 2
\* POST /transcribe requests served one after the other
MaxRequests == 2
\* longest duration of one stage, in clock ticks
MaxTick == 1
\* transcribe calls made on the one TranscriptionService
MaxCalls == 2
\* load_model calls made on the one SummarizationService
MaxLoads == 3

-----------------------------------------------------------------------------
(* Python str operations *)

Char(s, i) == SubSeq(s, i, i)

SetMin(S) == CHOOSE x \in S : \A y \in S : x <= y

SetMax(S) == CHOOSE x \in S : \A y \in S : x >= y

\* mutant: only the space counts as whitespace
WhitespaceSpaceOnly == {" "}

\* the characters str.strip() removes (ASCII part of str.isspace)
Whitespace == {" ", "\t", "\n", "\r", "\f"}

UpperLetters == "ABCDEFGHIJKLMNOPQRSTUVWXYZ"

LowerLetters == "abcdefghijklmnopqrstuvwxyz"

\* the lower-case letter of every upper-case letter
LowerOf ==
    [c \in {Char(UpperLetters, i) : i \in 1..Len(UpperLetters)} |->
        Char(LowerLetters, CHOOSE i \in 1..Len(UpperLetters) : Char(UpperLetters, i) = c)]

LowerChar(c) == IF c \in DOMAIN LowerOf THEN LowerOf[c] ELSE c

RECURSIVE LowerFrom(_, _)
LowerFrom(s, i) ==
    IF i > Len(s) THEN "" ELSE LowerChar(Char(s, i)) \o LowerFrom(s, i + 1)

\* str.lower()
Lower(s) == LowerFrom(s, 1)

\* str.lstrip(chars): drop the longest prefix made of characters of `chars`
LStrip(s, chars) ==
    LET keep == {i \in 1..Len(s) : Char(s, i) \notin chars}
    IN  IF keep = {} THEN "" ELSE SubSeq(s, SetMin(keep), Len(s))

\* str.strip(): drop leading and trailing whitespace
Strip(s) ==
    LET keep == {i \in 1..Len(s) : Char(s, i) \notin Whitespace}
    IN  IF keep = {} THEN "" ELSE SubSeq(s, SetMin(keep), SetMax(keep))

\* `sub in s`
Contains(s, sub) ==
    \E i \in 1..(Len(s) - Len(sub) + 1) : SubSeq(s, i, i + Len(sub) - 1) = sub

\* s.startswith(p)
StartsWith(s, p) == Len(s) >= Len(p) /\ SubSeq(s, 1, Len(p)) = p

\* s.split('\n'): always at least one piece
SplitLines(s) ==
    LET P == {i \in 1..Len(s) : Char(s, i) = "\n"}
        n == Cardinality(P)
        Nth(k) == CHOOSE p \in P : Cardinality({q \in P : q < p}) = k - 1
        First(k) == IF k = 1 THEN 1 ELSE Nth(k - 1) + 1
        Last(k) == IF k = n + 1 THEN Len(s) ELSE Nth(k) - 1
    IN  [k \in 1..(n + 1) |->
            IF First(k) > Last(k) THEN "" ELSE SubSeq(s, First(k), Last(k))]

RECURSIVE JoinFrom(_, _, _)
JoinFrom(sep, seq, i) ==
    IF i > Len(seq) THEN ""
    ELSE IF i = Len(seq) THEN seq[i]
    ELSE seq[i] \o sep \o JoinFrom(sep, seq, i + 1)

\* sep.join(seq)
Join(sep, seq) == JoinFrom(sep, seq, 1)

\* mutant: the split is made at the last colon of the line
AfterLastColon(line) ==
    LET P == {i \in 1..Len(line) : Char(line, i) = ":"}
    IN  IF P = {} THEN [ok |-> FALSE, val |-> ""]
        ELSE [ok |-> TRUE,
              val |-> IF SetMax(P) = Len(line) THEN ""
                      ELSE SubSeq(line, SetMax(P) + 1, Len(line))]

\* line.split(':', 1)[1]; IndexError when the line holds no colon
AfterFirstColon(line) ==
    LET P == {i \in 1..Len(line) : Char(line, i) = ":"}
    IN  IF P = {} THEN [ok |-> FALSE, val |-> ""]
        ELSE [ok |-> TRUE,
              val |-> IF SetMin(P) = Len(line) THEN ""
                      ELSE SubSeq(line, SetMin(P) + 1, Len(line))]

-----------------------------------------------------------------------------
(* The summary record and the section parser (generate_summary, lines 146-302) *)

ListSections ==
    {"main_points", "key_insights", "action_items_decisions",
     "open_questions_next_steps", "conclusions"}

\* the order of the if/elif chain that tests the heading phrases
HeadingOrder ==
    <<"overview", "main_points", "key_insights", "action_items_decisions",
      "open_questions_next_steps", "conclusions">>

HeadingPhrase(sec) ==
    CASE sec = "overview" -> "overview:"
      [] sec = "main_points" -> "main points:"
      [] sec = "key_insights" -> "key insights:"
      [] sec = "action_items_decisions" -> "action items / decisions:"
      [] sec = "open_questions_next_steps" -> "open questions / next steps:"
      [] sec = "conclusions" -> "conclusions:"

\* the record built at lines 147-155
NewSections(full) ==
    [overview |-> "",
     main_points |-> <<>>,
     key_insights |-> <<>>,
     action_items_decisions |-> <<>>,
     open_questions_next_steps |-> <<>>,
     conclusions |-> <<>>,
     full_text |-> full]

\* mutant: a heading is detected only at the start of the line
MatchedHeadingAtStart(lower_line) ==
    LET hit == {i \in 1..Len(HeadingOrder) :
                    StartsWith(lower_line, HeadingPhrase(HeadingOrder[i]))}
    IN  IF hit = {} THEN "none" ELSE HeadingOrder[SetMin(hit)]

\* mutant: the branch taken is the one of the phrase that stands leftmost in
\* the line
MatchedHeadingLeftmost(lower_line) ==
    LET At(sec) == {p \in 1..Len(lower_line) :
                        StartsWith(SubSeq(lower_line, p, Len(lower_line)),
                                   HeadingPhrase(sec))}
        hit == {i \in 1..Len(HeadingOrder) : At(HeadingOrder[i]) # {}}
        first == SetMin(UNION {At(HeadingOrder[i]) : i \in hit})
    IN  IF hit = {} THEN "none"
        ELSE HeadingOrder[SetMin({i \in hit : first \in At(HeadingOrder[i])})]

\* the branch of the if/elif chain a line takes: the first heading phrase, in
\* chain order, that the lower-cased line contains; "none" when it holds none
MatchedHeading(lower_line) ==
    LET hit == {i \in 1..Len(HeadingOrder) :
                    Contains(lower_line, HeadingPhrase(HeadingOrder[i]))}
    IN  IF hit = {} THEN "none" ELSE HeadingOrder[SetMin(hit)]

\* the sections the branch of heading h stores current_points into, when one of
\* them is the current section: every branch lists the list sections other than
\* its own (the 'overview:' branch lists all five)
FlushedBy(h) ==
    CASE h = "overview" -> ListSections
      [] h = "main_points" -> ListSections \ {"main_points"}
      [] h = "key_insights" -> ListSections \ {"key_insights"}
      [] h = "action_items_decisions" -> ListSections \ {"action_items_decisions"}
      [] h = "open_questions_next_steps" -> ListSections \ {"open_questions_next_steps"}
      [] h = "conclusions" -> ListSections \ {"conclusions"}

\* mutant: the points are added to what the field holds
StoreAppending(secs, sec, points) == [secs EXCEPT ![sec] = @ \o points]

\* sections[sec] = points
Store(secs, sec, points) == [secs EXCEPT ![sec] = points]

\* mutant: the bullet marker is kept
BulletItemKeepsDash(line) == Strip(line)

\* the bullet branch's item: line.lstrip('- ').strip()
BulletItem(line) == Strip(LStrip(line, {"-", " "}))

\* mutant: the parser starts inside a list section
ParserStartInMainPoints(full) ==
    [current_section |-> "main_points", current_points |-> <<>>,
     sections |-> NewSections(full), raised |-> FALSE]

\* the parser's state before the first line (lines 158-159)
ParserStart(full) ==
    [current_section |-> "none", current_points |-> <<>>,
     sections |-> NewSections(full), raised |-> FALSE]

\* one iteration of the loop over summary_text.split('\n') (lines 161-288)
ParseLine(st, raw) ==
    LET line == Strip(raw)
        lower_line == Lower(line)
        h == MatchedHeading(lower_line)
        flushed == IF st.current_section \in FlushedBy(h)
                   THEN Store(st.sections, st.current_section, st.current_points)
                   ELSE st.sections
        after == AfterFirstColon(line)
    IN  IF line = "" THEN st
        ELSE IF h = "overview" THEN
            [current_section |-> "overview", current_points |-> <<>>,
             sections |-> IF after.ok
                          THEN [flushed EXCEPT !.overview = Strip(after.val)]
                          ELSE flushed,
             raised |-> ~after.ok]
        ELSE IF h # "none" THEN
            [current_section |-> h, current_points |-> <<>>,
             sections |-> flushed, raised |-> FALSE]
        ELSE IF StartsWith(line, "-") /\ st.current_section \in ListSections THEN
            [st EXCEPT !.current_points = Append(@, BulletItem(line))]
        ELSE IF st.current_section = "overview" /\ st.sections.overview # "" THEN
            [st EXCEPT !.sections.overview = @ \o " " \o line]
        ELSE IF st.current_section \in ListSections THEN
            [st EXCEPT !.current_points = Append(@, Strip(line))]
        ELSE st

\* the store after the loop (lines 290-300)
FinalStore(st) ==
    IF st.current_section \in ListSections
    THEN Store(st.sections, st.current_section, st.current_points)
    ELSE st.sections

RECURSIVE ParseFrom(_, _, _)
ParseFrom(st, ls, i) ==
    IF i > Len(ls) \/ st.raised THEN st
    ELSE ParseFrom(ParseLine(st, ls[i]), ls, i + 1)

\* lines 146-302 as a function of the response text
ParseSummary(full) ==
    LET st == ParseFrom(ParserStart(full), SplitLines(full), 1)
    IN  [raised |-> st.raised, sections |-> FinalStore(st)]

-----------------------------------------------------------------------------
(* Inputs: transcripts, LLM response texts, replies of POST /api/generate *)

\* the `text` arguments tried
Transcripts == {"", "Team sync meeting."}

\* lines of the free-form response texts
FreeLines ==
    {"Overview: Team synced.",
     "Main Points:",
     "KEY INSIGHTS: and more",
     "- see Conclusions: above",
     "- - Fix bug ",
     "-\t- y",
     "free text",
     "Conclusions: main points: x",
     " \t"}

FreeTexts ==
    {Join("\n", ls) : ls \in UNION {[1..n -> FreeLines] : n \in 0..MaxLines}}

\* the Overview heading line of a structured text, or none
OverviewLines ==
    {<<>>, <<"Overview: Team synced.">>, <<"  overview:  a: b  ">>,
     <<"## Overview:">>,
     <<"- early", "Overview: Team synced.", "- stray">>,
     <<"Key Insights:", "- early", "Overview:", "Team synced.">>,
     <<"Main Points:", "- first", "MAIN POINTS:">>}

ListSectionOrder ==
    <<"main_points", "key_insights", "action_items_decisions",
      "open_questions_next_steps", "conclusions">>

HeadingLines ==
    <<"Main Points:", "**Key Insights:**", "3. Action Items / Decisions:",
      "OPEN QUESTIONS / NEXT STEPS:", "Conclusions: final">>

BulletPool == <<"- Ship v2", "-  Fix bug ", "-- x", "-done", "   - Ask  Bob">>

\* the block of section k: its heading line and n bullet lines
SectionBlock(k, n) ==
    <<HeadingLines[k]>> \o
    [i \in 1..n |-> BulletPool[((k + i) % Len(BulletPool)) + 1]]

\* the blocks of the sections of `present`, in canonical order; section k gets
\* (n + k) % (MaxBullets + 1) bullet lines
RECURSIVE BlocksFrom(_, _, _)
BlocksFrom(present, n, k) ==
    IF k > Len(ListSectionOrder) THEN <<>>
    ELSE (IF k \in present THEN SectionBlock(k, (n + k) % (MaxBullets + 1)) ELSE <<>>)
         \o BlocksFrom(present, n, k + 1)

\* headings in canonical order, each at most once, bullets under list headings
StructuredTexts ==
    {Join("\n", ov \o BlocksFrom(present, n, 1)) :
        ov \in OverviewLines,
        present \in SUBSET (1..Len(ListSectionOrder)),
        n \in 0..MaxBullets}

ResponseTexts(fam) == IF fam = "free" THEN FreeTexts ELSE StructuredTexts

\* what requests.post(.../api/generate) can do: raise (no connection), or
\* answer with a status and a body (response.text) that is not JSON, is JSON
\* without the 'response' key, holds null there, or holds a string there
\* (the body is left empty where the code does not read it)
Reply(kind, status, body, json, resp) ==
    [kind |-> kind, status |-> status, body |-> body, json |-> json,
     response |-> resp]

NoReply == Reply("none", 0, "", "none", "")

FailedReplies ==
    {Reply("raise", 0, "Connection refused", "none", "")}
    \cup {Reply("http", st, "{\"error\":\"model 'phi3.5' not found\"}", "no_key", "")
            : st \in {404, 500}}
    \cup {Reply("http", 201, "{\"response\":\"Overview: ok\"}", "str", "Overview: ok")}
    \cup {Reply("http", 200, "<html>", "invalid", ""),
          Reply("http", 200, "{\"error\":\"busy\"}", "no_key", ""),
          Reply("http", 200, "{\"response\":null}", "null", "")}

Replies(fam) ==
    FailedReplies \cup {Reply("http", 200, "", "str", t) : t \in ResponseTexts(fam)}

\* the replies tried inside a POST /transcribe request
HandlerReplies ==
    FailedReplies
    \cup {Reply("http", 200, "", "str", t) :
            t \in {"", "Overview: Team synced.\nMain Points:\n- Ship v2"}}

-----------------------------------------------------------------------------
(* SummarizationService.generate_summary *)

PyException(cls, msg) == [cls |-> cls, msg |-> msg]

NoException == PyException("none", "")

\* Exception and the subclasses of it that the modelled code can raise
ExceptionClasses ==
    {"Exception", "ConnectionError", "JSONDecodeError", "KeyError",
     "AttributeError", "IndexError", "TypeError", "HTTPException",
     "RuntimeError", "ValueError"}

\* mutant: the clause written for the errors of the request only
CaughtOnlyRequestErrors(e) == e.cls \in {"Exception", "ConnectionError"}

\* `except Exception as e` (summarization.py line 304, main.py line 65)
CaughtByExceptException(e) == e.cls \in ExceptionClasses

\* mutant: the guard on empty text left out
FalsyNever(s) == FALSE

\* `not text` (line 73)
Falsy(s) == s = ""

\* the record returned for empty text (lines 74-82)
Placeholder == [NewSections("") EXCEPT !.overview = "No text provided"]

\* the record returned by the except clause (lines 307-315)
ErrorRecord(e) ==
    [NewSections("Error in summary generation: " \o e.msg)
        EXCEPT !.overview = "Error in summary generation: " \o e.msg]

\* mutant: the status check left out
PostExceptionIgnoringStatus(r) ==
    IF r.kind = "raise" THEN PyException("ConnectionError", r.body)
    ELSE IF r.json = "invalid"
        THEN PyException("JSONDecodeError", "Expecting value: line 1 column 1 (char 0)")
    ELSE IF r.json = "no_key" THEN PyException("KeyError", "'response'")
    ELSE NoException

\* what lines 125-143 raise for a reply, NoException when they raise nothing
PostException(r) ==
    IF r.kind = "raise" THEN PyException("ConnectionError", r.body)
    ELSE IF r.status # 200
        THEN PyException("Exception", "Ollama API error: " \o r.body)
    ELSE IF r.json = "invalid"
        THEN PyException("JSONDecodeError", "Expecting value: line 1 column 1 (char 0)")
    ELSE IF r.json = "no_key" THEN PyException("KeyError", "'response'")
    ELSE NoException

\* summary_text.split on a value that is no string (line 161)
SplitException(r) ==
    IF r.json = "null"
    THEN PyException("AttributeError", "'NoneType' object has no attribute 'split'")
    ELSE NoException

\* line.split(':', 1)[1] on a line without a colon (line 184)
IndexErrorException == PyException("IndexError", "list index out of range")

\* lines 72-82: the guard on empty text
Begin ==
    /\ gs_pc = "start"
    /\ IF Falsy(text)
       THEN /\ gs_pc' = "returned"
            /\ result' = Placeholder
       ELSE /\ gs_pc' = "post"
            /\ UNCHANGED result
    /\ UNCHANGED <<family, text, requests, reply, summary_text, lines,
                   current_section, current_points, sections, exc>>
    /\ UNCHANGED apiVars
    /\ UNCHANGED trVars
    /\ UNCHANGED lmVars

\* an exception e inside the try block (lines 304-315)
Except(e) ==
    /\ exc' = e
    /\ IF CaughtByExceptException(e)
       THEN /\ gs_pc' = "returned"
            /\ result' = ErrorRecord(e)
       ELSE /\ gs_pc' = "raised"
            /\ UNCHANGED result

\* mutant: the request is sent again when the connection fails
PostsSentRetrying(r) == IF r.kind = "raise" THEN 2 ELSE 1

\* the POSTs to /api/generate one call makes when the request ends as r:
\* requests.post is called once, outside any loop (lines 125-138)
PostsSent(r) == 1

\* lines 124-159: the request, the checks on its reply, the parser's start
Post ==
    /\ gs_pc = "post"
    /\ \E r \in Replies(family) :
        LET e == IF PostException(r) # NoException
                 THEN PostException(r) ELSE SplitException(r)
            st == ParserStart(r.response)
        IN  /\ reply' = r
            /\ requests' = requests + PostsSent(r)
            /\ IF e # NoException
               THEN /\ Except(e)
                    /\ UNCHANGED <<summary_text, lines, current_section,
                                   current_points, sections>>
               ELSE /\ gs_pc' = "parsing"
                    /\ summary_text' = r.response
                    /\ lines' = SplitLines(r.response)
                    /\ current_section' = st.current_section
                    /\ current_points' = st.current_points
                    /\ sections' = st.sections
                    /\ UNCHANGED <<result, exc>>
    /\ UNCHANGED <<family, text>>
    /\ UNCHANGED apiVars
    /\ UNCHANGED trVars
    /\ UNCHANGED lmVars

ParserState ==
    [current_section |-> current_section, current_points |-> current_points,
     sections |-> sections, raised |-> FALSE]

\* lines 161-288: one iteration of the loop
ParseStep ==
    /\ gs_pc = "parsing"
    /\ lines # <<>>
    /\ LET st == ParseLine(ParserState, Head(lines))
       IN  /\ current_section' = st.current_section
           /\ current_points' = st.current_points
           /\ sections' = st.sections
           /\ lines' = Tail(lines)
           /\ IF st.raised
              THEN Except(IndexErrorException)
              ELSE UNCHANGED <<gs_pc, result, exc>>
    /\ UNCHANGED <<family, text, requests, reply, summary_text>>
    /\ UNCHANGED apiVars
    /\ UNCHANGED trVars
    /\ UNCHANGED lmVars

\* lines 290-302: the store after the loop, and the return
Finish ==
    /\ gs_pc = "parsing"
    /\ lines = <<>>
    /\ sections' = FinalStore(ParserState)
    /\ result' = FinalStore(ParserState)
    /\ gs_pc' = "returned"
    /\ UNCHANGED <<family, text, requests, reply, summary_text, lines,
                   current_section, current_points, exc>>
    /\ UNCHANGED apiVars
    /\ UNCHANGED trVars
    /\ UNCHANGED lmVars

\* self.model_name (line 11)
ModelName == "phi3.5"

\* the JSON body of the POST to /api/generate (lines 127-137; the system
\* prompt and the options are fixed texts and are left out)
GenerateRequest(t) ==
    [model |-> ModelName,
     prompt |-> "Please summarize this text:\n\n" \o t,
     stream |-> FALSE]

\* generate_summary(text) as a function of its argument and of what the
\* request does: the record returned, or the exception that leaves the call,
\* and the requests sent
GenerateSummary(t, r) ==
    LET e == IF PostException(r) # NoException
             THEN PostException(r) ELSE SplitException(r)
        parsed == ParseSummary(r.response)
        err == IF e # NoException THEN e
               ELSE IF parsed.raised THEN IndexErrorException
               ELSE NoException
    IN  IF Falsy(t)
            THEN [raised |-> FALSE, exc |-> NoException, value |-> Placeholder,
                  sent |-> <<>>]
        ELSE IF err = NoException
            THEN [raised |-> FALSE, exc |-> NoException, value |-> parsed.sections,
                  sent |-> <<GenerateRequest(t)>>]
        ELSE IF CaughtByExceptException(err)
            THEN [raised |-> FALSE, exc |-> NoException, value |-> ErrorRecord(err),
                  sent |-> <<GenerateRequest(t)>>]
        ELSE [raised |-> TRUE, exc |-> err, value |-> NewSections(""),
              sent |-> <<GenerateRequest(t)>>]

-----------------------------------------------------------------------------
(* TranscriptionService.transcribe, as one call that nothing interleaves with *)

WhisperModels == {"large-v3", "small"}

LlmNames == {"phi4-mini:latest", "phi3.5"}

\* segment.text of the segments the speech model returns
SegmentTexts == {" Hello", "world. ", " "}

\* lines 56-57: the segments with non-blank text, joined by " ", stripped
JoinSegments(segs) ==
    Strip(Join(" ", SelectSeq(segs, LAMBDA t : Strip(t) # "")))

\* what one transcribe call can do: load_model raises (line 33, outside the
\* try), something inside the try raises (lines 35-57), or inference returns
TranscribeOutcomes ==
    {[kind |-> "load_raises", e |-> PyException("RuntimeError", "CUDA out of memory"),
      segments |-> <<>>],
     [kind |-> "load_raises", e |-> PyException("ValueError", "Invalid model size"),
      segments |-> <<>>],
     [kind |-> "try_raises", e |-> PyException("RuntimeError", "Invalid data found"),
      segments |-> <<>>]}
    \cup {[kind |-> "returns", e |-> NoException, segments |-> segs] :
            segs \in UNION {[1..n -> SegmentTexts] : n \in 0..MaxSegments}}

\* line 69: raise Exception(f"Transcription failed: {str(e)}")
TranscriptionFailed(e) == PyException("Exception", "Transcription failed: " \o e.msg)

\* transcribe(model_size, file) from the service state (model, model_size):
\* the exception raised or the text returned, and the state it leaves
Transcribe(model, model_size, size, o) ==
    LET load == model_size # size \/ model = "none"
    IN  IF load /\ o.kind = "load_raises"
        THEN [exc |-> o.e, value |-> "", model |-> model, model_size |-> model_size]
        ELSE IF o.kind = "returns"
        THEN [exc |-> NoException, value |-> JoinSegments(o.segments),
              model |-> "none", model_size |-> "none"]
        ELSE [exc |-> TranscriptionFailed(o.e), value |-> "",
              model |-> "none", model_size |-> "none"]

-----------------------------------------------------------------------------
(* TranscriptionService.transcribe, statement by statement.  transcribe is a  *)
(* coroutine: the event loop runs one call at a time and can switch to        *)
(* another call only at `await file.read()` (line 39).                        *)

Calls == 1..MaxCalls

\* a call that has not started: no argument, no temporary file, no outcome
\* (tmp is the name of the call's temporary file, 0 before line 38; loads are
\* the sizes it passed to load_model; used is the size of the model line 44
\* ran on; cause is the exception raised under the call, exc the one that
\* left it)
NewCall ==
    [pc |-> "idle", model_size |-> "none", tmp |-> 0, loads |-> <<>>,
     unloads |-> 0, used |-> "none", cause |-> NoException,
     exc |-> NoException, value |-> ""]

\* the call is not between its first and its last statement
Outside(call) == call.pc \in {"idle", "returned", "raised"}

\* what WhisperModel(model_size, ...) can raise (lines 20-22)
LoadErrors ==
    {PyException("RuntimeError", "CUDA out of memory"),
     PyException("ValueError", "Invalid model size")}

\* the list without the first element equal to x
RECURSIVE RemoveOne(_, _)
RemoveOne(seq, x) ==
    IF seq = <<>> THEN <<>>
    ELSE IF Head(seq) = x THEN Tail(seq)
    ELSE <<Head(seq)>> \o RemoveOne(Tail(seq), x)

\* the objects alive once self.model no longer refers to `model`
Released(objs, model) == IF model = "none" THEN objs ELSE RemoveOne(objs, model)

\* line 31: self.model_size != model_size or self.model is None
MustLoad(model, held_size, size) == held_size # size \/ model = "none"

\* what the statements after the await can do (lines 39-57): file.read()
\* raises, tmp.write raises, self.model.transcribe raises, iterating the
\* segments raises, or the segments are produced
ResumeOutcomes ==
    {[kind |-> "read_raises", e |-> PyException("RuntimeError", "client disconnected"),
      segments |-> <<>>],
     [kind |-> "write_raises", e |-> PyException("Exception", "No space left on device"),
      segments |-> <<>>],
     [kind |-> "transcribe_raises", e |-> PyException("RuntimeError", "Invalid data found"),
      segments |-> <<>>],
     [kind |-> "segments_raise", e |-> PyException("RuntimeError", "CUDA out of memory"),
      segments |-> <<>>]}
    \cup {[kind |-> "returns", e |-> NoException, segments |-> segs] :
            segs \in UNION {[1..n -> SegmentTexts] : n \in 0..MaxSegments}}

\* self.model.transcribe when self.model is None (line 44)
NoModelException ==
    PyException("AttributeError", "'NoneType' object has no attribute 'transcribe'")

\* the exception raised inside the try block for outcome o with self.model
\* being `model` at line 44; NoException when line 63 is reached
TryException(o, model) ==
    IF o.kind \in {"read_raises", "write_raises"} THEN o.e
    ELSE IF model = "none" THEN NoModelException
    ELSE o.e

\* whether line 44 was reached, and whether line 54 (os.unlink) was
ReachedInference(o) == o.kind \notin {"read_raises", "write_raises"}

ReachedUnlink(o, model) ==
    model # "none" /\ o.kind \in {"segments_raise", "returns"}

\* mutant: unload_model forgets the model and keeps its size
UnloadModelKeepsSize(model, size) == [model |-> "none", model_size |-> size]

\* unload_model (lines 71-81): del self.model; self.model = self.model_size = None
UnloadModel(model, size) == [model |-> "none", model_size |-> "none"]

\* the handler's variables, which transcribe leaves alone
requestVars ==
    <<h_pc, served, llm_name, whisper_model, now, start_time,
      transcription_time, transcription, transcribe_calls, summarize_calls,
      generate_requests, raised_by, h_exc, response>>

\* lines 29-31: the call starts and tests whether it must load a model
T_Call(c) ==
    /\ running = 0
    /\ t_calls[c].pc = "idle"
    /\ overlap \/ \A d \in Calls : Outside(t_calls[d])
    /\ \E size \in WhisperModels :
        t_calls' = [t_calls EXCEPT
            ![c].model_size = size,
            ![c].pc = IF MustLoad(ts_model, ts_model_size, size)
                      THEN "load_model" ELSE "try"]
    /\ running' = c
    /\ UNCHANGED <<overlap, files, resident, ts_model, ts_model_size>>
    /\ UNCHANGED requestVars
    /\ UNCHANGED gsVars
    /\ UNCHANGED lmVars

\* lines 18-22, 25-27, 33: load_model builds the WhisperModel object, while
\* self.model still refers to the object it held; an exception of the
\* constructor is re-raised by load_model and leaves transcribe, line 33
\* being outside the try block
T_Construct(c) ==
    /\ running = c
    /\ t_calls[c].pc = "load_model"
    /\ \/ /\ resident' = Append(resident, t_calls[c].model_size)
          /\ t_calls' = [t_calls EXCEPT
                ![c].pc = "assign",
                ![c].loads = Append(@, t_calls[c].model_size)]
          /\ UNCHANGED running
       \/ /\ \E e \in LoadErrors :
                t_calls' = [t_calls EXCEPT
                    ![c].pc = "raised",
                    ![c].loads = Append(@, t_calls[c].model_size),
                    ![c].cause = e,
                    ![c].exc = e]
          /\ running' = 0
          /\ UNCHANGED resident
    /\ UNCHANGED <<overlap, files, ts_model, ts_model_size>>
    /\ UNCHANGED requestVars
    /\ UNCHANGED gsVars
    /\ UNCHANGED lmVars

\* lines 20, 23: the new object is bound to self.model, which drops the last
\* reference to the object held before, and self.model_size is set
T_Assign(c) ==
    /\ running = c
    /\ t_calls[c].pc = "assign"
    /\ ts_model' = t_calls[c].model_size
    /\ ts_model_size' = t_calls[c].model_size
    /\ resident' = Released(resident, ts_model)
    /\ t_calls' = [t_calls EXCEPT ![c].pc = "try"]
    /\ UNCHANGED <<overlap, running, files>>
    /\ UNCHANGED requestVars
    /\ UNCHANGED gsVars
    /\ UNCHANGED lmVars

\* lines 34-39: the temporary file is created (delete=False) and the call
\* awaits the upload's bytes, which frees the event loop
T_OpenTemp(c) ==
    /\ running = c
    /\ t_calls[c].pc = "try"
    /\ files' = files \cup {c}
    /\ t_calls' = [t_calls EXCEPT ![c].pc = "reading", ![c].tmp = c]
    /\ running' = 0
    /\ UNCHANGED <<overlap, resident, ts_model, ts_model_size>>
    /\ UNCHANGED requestVars
    /\ UNCHANGED gsVars
    /\ UNCHANGED lmVars

\* lines 39-69: the await completes and the call runs to its end: write,
\* inference on self.model, os.unlink, the join of the segments, unload_model
\* and return; or the except clause: unload_model and the wrapped exception
T_Resume(c) ==
    /\ running = 0
    /\ t_calls[c].pc = "reading"
    /\ \E o \in ResumeOutcomes :
        LET e == TryException(o, ts_model)
            after == UnloadModel(ts_model, ts_model_size)
        IN  /\ files' = IF ReachedUnlink(o, ts_model)
                        THEN files \ {t_calls[c].tmp} ELSE files
            /\ ts_model' = after.model
            /\ ts_model_size' = after.model_size
            /\ resident' = Released(resident, ts_model)
            /\ t_calls' = [t_calls EXCEPT
                  ![c].pc = IF e = NoException THEN "returned" ELSE "raised",
                  ![c].used = IF ReachedInference(o) THEN ts_model ELSE "none",
                  ![c].unloads = @ + 1,
                  ![c].cause = e,
                  ![c].exc = IF e = NoException THEN NoException
                             ELSE TranscriptionFailed(e),
                  ![c].value = IF e = NoException
                               THEN JoinSegments(o.segments) ELSE ""]
    /\ UNCHANGED <<overlap, running>>
    /\ UNCHANGED requestVars
    /\ UNCHANGED gsVars
    /\ UNCHANGED lmVars

-----------------------------------------------------------------------------
(* SummarizationService.health_check and load_model (lines 16-68) *)

\* the sets of model names the server may hold before the first call
ServerModelSets == {{}, {"llama3:latest"}, {"phi3.5", "llama3:latest"}}

\* what requests.get(.../api/tags) can do: raise, answer with a status other
\* than 200, or answer 200 with the list of the models the server holds
TagsReplies(held) ==
    {[kind |-> "raise", status |-> 0, models |-> {}],
     [kind |-> "http", status |-> 500, models |-> {}],
     [kind |-> "http", status |-> 200, models |-> held]}

\* what requests.post(.../api/create) can do
CreateReplies ==
    {[kind |-> "raise", status |-> 0, text |-> "Connection refused"],
     [kind |-> "http", status |-> 500, text |-> "{\"error\":\"pull failed\"}"],
     [kind |-> "http", status |-> 200, text |-> "{\"status\":\"success\"}"]}

\* health_check (lines 16-27): True only for a 200 answer that lists
\* self.model_name; an exception of the request is caught and gives False
HealthCheck(tags) ==
    tags.kind = "http" /\ tags.status = 200 /\ ModelName \in tags.models

\* the exception lines 52-64 raise for a reply of /api/create, re-raised by
\* lines 65-68; NoException when the model was created
CreateException(r) ==
    IF r.kind = "raise" THEN PyException("ConnectionError", r.text)
    ELSE IF r.status # 200
        THEN PyException("Exception", "Failed to create model: " \o r.text)
    ELSE NoException

\* a request load_model sent: its status (0 when the request raised) and
\* whether it found the model in the listing or created it
LogEntry(req, status, ok) == [req |-> req, status |-> status, ok |-> ok]

\* load_model (lines 29-68): the listing check, and when it does not find the
\* model the /api/create request
LM_LoadModel ==
    /\ lm_calls < MaxLoads
    /\ lm_calls' = lm_calls + 1
    /\ \E tags \in TagsReplies(server_models) :
        IF HealthCheck(tags)
        THEN /\ ss_model' = "True"
             /\ lm_log' = Append(lm_log, LogEntry("GET /api/tags", tags.status, TRUE))
             /\ lm_exc' = NoException
             /\ UNCHANGED server_models
        ELSE \E r \in CreateReplies :
             /\ lm_log' = lm_log \o
                    <<LogEntry("GET /api/tags", tags.status, FALSE),
                      LogEntry("POST /api/create", r.status,
                               CreateException(r) = NoException)>>
             /\ lm_exc' = CreateException(r)
             /\ ss_model' = IF CreateException(r) = NoException THEN "True" ELSE ss_model
             /\ server_models' = IF r.kind = "http" /\ r.status = 200
                                 THEN server_models \cup {ModelName}
                                 ELSE server_models
    /\ UNCHANGED gsVars
    /\ UNCHANGED apiVars
    /\ UNCHANGED trVars

-----------------------------------------------------------------------------
(* POST /transcribe: transcribe_audio (main.py lines 32-68) *)

\* positional parameters of generate_summary after self (summarization.py line 70)
GenerateSummaryParams == 1

\* the arguments of the call at main.py line 51
SummarizeArgs(llm, transcript) == <<llm, transcript>>

\* calling the bound method with `args`: Python raises TypeError when the
\* number of arguments is not the number of parameters, else the body runs
\* with text bound to the first argument
CallGenerateSummary(args, r) ==
    IF Len(args) # GenerateSummaryParams
    THEN [raised |-> TRUE,
          exc |-> PyException("TypeError",
                    "SummarizationService.generate_summary() takes 2 positional arguments but 3 were given"),
          value |-> NewSections(""),
          sent |-> <<>>]
    ELSE GenerateSummary(args[1], r)

Durations(t, s, tot) == [transcription |-> t, summarization |-> s, total |-> tot]

\* the JSON body of lines 55-63
Payload(transcript, summary, times) ==
    [status |-> 200, detail |-> "", transcription |-> transcript,
     summary |-> summary, processing_time |-> times]

HttpError(status, detail) ==
    [status |-> status, detail |-> detail, transcription |-> "",
     summary |-> NewSections(""), processing_time |-> Durations(0, 0, 0)]

NoResponse == HttpError(0, "")

\* mutant: the exception's message replaced by a fixed text
ErrorResponseGeneric(e) == HttpError(500, "Internal Server Error")

\* line 68: raise HTTPException(status_code=500, detail=str(e))
ErrorResponse(e) == HttpError(500, e.msg)

\* str() of HTTPException(status_code=400, detail="Transcription failed"):
\* "400: Transcription failed" where the class defines __str__, "" where it
\* does not (no positional argument reaches Exception.__init__)
HTTPExceptionStr == {"400: Transcription failed", ""}

\* an exception e inside the handler's try block (lines 65-68)
HandlerExcept(e) ==
    /\ h_exc' = e
    /\ served' = served + 1
    /\ IF CaughtByExceptException(e)
       THEN /\ h_pc' = "responded"
            /\ response' = ErrorResponse(e)
       ELSE /\ h_pc' = "crashed"
            /\ UNCHANGED response

\* lines 33-39: a request arrives
H_Begin ==
    /\ h_pc \in {"idle", "responded"}
    /\ served < MaxRequests
    /\ llm_name' \in LlmNames
    /\ whisper_model' \in WhisperModels
    /\ start_time' = now
    /\ transcription_time' = 0
    /\ transcription' = ""
    /\ transcribe_calls' = 0
    /\ summarize_calls' = 0
    /\ generate_requests' = <<>>
    /\ raised_by' = "none"
    /\ h_exc' = NoException
    /\ response' = NoResponse
    /\ h_pc' = "transcribing"
    /\ UNCHANGED <<served, now, ts_model, ts_model_size>>
    /\ UNCHANGED gsVars
    /\ UNCHANGED trVars
    /\ UNCHANGED lmVars

\* line 43: the transcription stage
H_Transcribe ==
    /\ h_pc = "transcribing"
    /\ transcribe_calls' = transcribe_calls + 1
    /\ \E o \in TranscribeOutcomes, d \in 0..MaxTick :
        LET t == Transcribe(ts_model, ts_model_size, whisper_model, o)
        IN  /\ now' = now + d
            /\ ts_model' = t.model
            /\ ts_model_size' = t.model_size
            /\ IF t.exc # NoException
               THEN /\ raised_by' = "transcription"
                    /\ HandlerExcept(t.exc)
                    /\ UNCHANGED transcription
               ELSE /\ transcription' = t.value
                    /\ h_pc' = "transcribed"
                    /\ UNCHANGED <<raised_by, h_exc, served, response>>
    /\ UNCHANGED <<llm_name, whisper_model, start_time, transcription_time,
                   summarize_calls, generate_requests>>
    /\ UNCHANGED gsVars
    /\ UNCHANGED trVars
    /\ UNCHANGED lmVars

\* lines 44-48: the time stamp and the check for an empty transcript
H_CheckTranscript ==
    /\ h_pc = "transcribed"
    /\ transcription_time' = now
    /\ IF Falsy(transcription)
       THEN /\ raised_by' = "handler"
            /\ \E m \in HTTPExceptionStr : HandlerExcept(PyException("HTTPException", m))
       ELSE /\ h_pc' = "summarizing"
            /\ UNCHANGED <<raised_by, h_exc, served, response>>
    /\ UNCHANGED <<llm_name, whisper_model, now, start_time, transcription,
                   transcribe_calls, summarize_calls, generate_requests,
                   ts_model, ts_model_size>>
    /\ UNCHANGED gsVars
    /\ UNCHANGED trVars
    /\ UNCHANGED lmVars

\* lines 50-63: the summarization stage and the success payload
H_Summarize ==
    /\ h_pc = "summarizing"
    /\ summarize_calls' = summarize_calls + 1
    /\ \E r \in HandlerReplies, d \in 0..MaxTick :
        LET call == CallGenerateSummary(SummarizeArgs(llm_name, transcription), r)
        IN  /\ now' = now + d
            /\ generate_requests' = call.sent
            /\ IF call.raised
               THEN /\ raised_by' = "summarization"
                    /\ HandlerExcept(call.exc)
               ELSE /\ h_pc' = "responded"
                    /\ served' = served + 1
                    /\ response' =
                         Payload(transcription, call.value,
                                 Durations(transcription_time - start_time,
                                           (now + d) - transcription_time,
                                           (now + d) - start_time))
                    /\ UNCHANGED <<raised_by, h_exc>>
    /\ UNCHANGED <<llm_name, whisper_model, start_time, transcription_time,
                   transcription, transcribe_calls, ts_model, ts_model_size>>
    /\ UNCHANGED gsVars
    /\ UNCHANGED trVars
    /\ UNCHANGED lmVars

-----------------------------------------------------------------------------
(* Specifications *)

InitGenerateVars(fam) ==
    /\ family = fam
    /\ gs_pc = "start"
    /\ requests = 0
    /\ reply = NoReply
    /\ summary_text = ""
    /\ lines = <<>>
    /\ current_section = "none"
    /\ current_points = <<>>
    /\ sections = NewSections("")
    /\ result = NewSections("")
    /\ exc = NoException

\* the state after TranscriptionService() and before any request
InitApiVars ==
    /\ h_pc = "idle"
    /\ served = 0
    /\ llm_name = "phi4-mini:latest"
    /\ whisper_model = "large-v3"
    /\ now = 0
    /\ start_time = 0
    /\ transcription_time = 0
    /\ transcription = ""
    /\ transcribe_calls = 0
    /\ summarize_calls = 0
    /\ generate_requests = <<>>
    /\ raised_by = "none"
    /\ h_exc = NoException
    /\ response = NoResponse
    /\ ts_model = "none"
    /\ ts_model_size = "none"

\* no transcribe call made yet, nothing on disk, no model in memory
InitTranscribeVars(ov) ==
    /\ overlap = ov
    /\ t_calls = [c \in Calls |-> NewCall]
    /\ running = 0
    /\ files = {}
    /\ resident = <<>>

\* SummarizationService.__init__ before its load_model call (lines 10-12)
InitLoadVars ==
    /\ ss_model = "none"
    /\ server_models = {}
    /\ lm_calls = 0
    /\ lm_log = <<>>
    /\ lm_exc = NoException

NextGenerate == Begin \/ Post \/ ParseStep \/ Finish

\* one generate_summary call, free-form response texts
Init ==
    /\ InitGenerateVars("free")
    /\ text \in Transcripts
    /\ InitApiVars
    /\ InitTranscribeVars(FALSE)
    /\ InitLoadVars

Next == NextGenerate

Spec == Init /\ [][Next]_vars

\* one generate_summary call, structured response texts
InitStructured ==
    /\ InitGenerateVars("structured")
    /\ text \in Transcripts
    /\ InitApiVars
    /\ InitTranscribeVars(FALSE)
    /\ InitLoadVars

SpecStructured == InitStructured /\ [][Next]_vars

\* POST /transcribe requests served one after the other
InitApi ==
    /\ InitGenerateVars("free")
    /\ text = ""
    /\ InitApiVars
    /\ InitTranscribeVars(FALSE)
    /\ InitLoadVars

NextApi == H_Begin \/ H_Transcribe \/ H_CheckTranscript \/ H_Summarize

SpecApi == InitApi /\ [][NextApi]_vars

NextTranscribe ==
    \E c \in Calls :
        T_Call(c) \/ T_Construct(c) \/ T_Assign(c) \/ T_OpenTemp(c) \/ T_Resume(c)

\* transcribe calls made one after the other on one service
InitSequential ==
    /\ InitGenerateVars("free")
    /\ text = ""
    /\ InitApiVars
    /\ InitTranscribeVars(FALSE)
    /\ InitLoadVars

SpecSequential == InitSequential /\ [][NextTranscribe]_vars

\* transcribe calls that interleave at the await of line 39
InitConcurrent ==
    /\ InitGenerateVars("free")
    /\ text = ""
    /\ InitApiVars
    /\ InitTranscribeVars(TRUE)
    /\ InitLoadVars

SpecConcurrent == InitConcurrent /\ [][NextTranscribe]_vars

\* load_model calls, the first one made by __init__ (line 14), against a
\* server whose requests succeed or fail
InitBootstrap ==
    /\ InitGenerateVars("free")
    /\ text = ""
    /\ InitApiVars
    /\ InitTranscribeVars(FALSE)
    /\ ss_model = "none"
    /\ server_models \in ServerModelSets
    /\ lm_calls = 0
    /\ lm_log = <<>>
    /\ lm_exc = NoException

NextBootstrap == LM_LoadModel

\* the two entry points of the pipeline: one generate_summary call on the
\* service, or POST /transcribe requests served one after the other
InitPipeline ==
    /\ InitGenerateVars("free")
    /\ text \in Transcripts
    /\ InitApiVars
    /\ InitTranscribeVars(FALSE)
    /\ InitLoadVars

NextPipeline ==
    \/ h_pc = "idle" /\ NextGenerate
    \/ gs_pc = "start" /\ NextApi

SpecPipeline == InitPipeline /\ [][NextPipeline]_vars

SpecBootstrap == InitBootstrap /\ [][NextBootstrap]_vars

-----------------------------------------------------------------------------
(* Properties of generate_summary *)

SummaryKeys ==
    {"overview", "main_points", "key_insights", "action_items_decisions",
     "open_questions_next_steps", "conclusions", "full_text"}

ErrorPrefix == "Error in summary generation:"

\* the call went through the request and the parser without an exception
ParsedResponse == gs_pc = "returned" /\ text # "" /\ exc = NoException

\* C1: generate_summary never raises (no exception leaves the call), and what
\* it returns is a record with exactly the seven keys, overview and full_text
\* strings and the five section fields lists of strings, for every transcript
\* and every outcome of the request.
C1_AlwaysFullRecord ==
    /\ gs_pc \in {"start", "post", "parsing", "returned"}
    /\ gs_pc = "returned" =>
        /\ DOMAIN result = SummaryKeys
        /\ result.overview \in STRING
        /\ result.full_text \in STRING
        /\ \A sec \in ListSections : result[sec] \in Seq(STRING)

\* C1 witness: a record was returned although the response held null
C1_Witness ==
    /\ gs_pc = "returned"
    /\ reply.json = "null"
    /\ exc.cls = "AttributeError"
    /\ DOMAIN result = SummaryKeys

\* the /api/generate call failed: network error, non-200 status, or a body
\* that is not JSON with a 'response' field
GenerateCallFailed ==
    \/ reply.kind = "raise"
    \/ reply.kind = "http" /\ reply.status # 200
    \/ reply.kind = "http" /\ reply.json \in {"invalid", "no_key"}

\* C5: for a non-empty transcript, when the /api/generate call fails the
\* function returns (it does not raise) a record whose overview and full_text
\* both start with "Error in summary generation:" and whose five lists are empty.
C5_FailureGivesErrorRecord ==
    (text # "" /\ GenerateCallFailed) =>
        /\ gs_pc = "returned"
        /\ StartsWith(result.overview, ErrorPrefix)
        /\ StartsWith(result.full_text, ErrorPrefix)
        /\ \A sec \in ListSections : result[sec] = <<>>

\* C5 witness: a 201 answer with a usable body was turned into the error record
C5_Witness ==
    /\ gs_pc = "returned"
    /\ reply.status = 201
    /\ reply.json = "str"
    /\ result.overview = "Error in summary generation: Ollama API error: " \o reply.body

\* C6: with the empty string no request is sent and the fixed placeholder
\* record is returned.
C6_EmptyTextPlaceholder ==
    text = "" =>
        /\ requests = 0
        /\ reply = NoReply
        /\ gs_pc \in {"start", "returned"}
        /\ gs_pc = "returned" =>
            /\ result.overview = "No text provided"
            /\ result.full_text = ""
            /\ \A sec \in ListSections : result[sec] = <<>>

\* C6 witness: generate_summary("") has returned
C6_Witness == text = "" /\ gs_pc = "returned" /\ requests = 0

\* the sections whose heading phrase the line contains, case-insensitively
HeadingsIn(line) ==
    {HeadingOrder[k] : k \in {j \in 1..Len(HeadingOrder) :
        Contains(Lower(line), HeadingPhrase(HeadingOrder[j]))}}

NoHeadingAnywhere(full) ==
    \A i \in 1..Len(SplitLines(full)) : HeadingsIn(SplitLines(full)[i]) = {}

\* C7: a response text none of whose lines contains a heading phrase parses to
\* an empty overview, five empty lists and full_text equal to the text.
C7_NoHeadingsAllEmpty ==
    (ParsedResponse /\ NoHeadingAnywhere(summary_text)) =>
        /\ result.overview = ""
        /\ \A sec \in ListSections : result[sec] = <<>>
        /\ result.full_text = summary_text

\* C7 witness: bullets, free text and a blank line, no heading
C7_Witness ==
    /\ ParsedResponse
    /\ summary_text = "- - Fix bug \nfree text\n \t"
    /\ result.full_text = summary_text

\* the heading sets of the lines of a text, line by line
LineHeadings(ls) == [i \in 1..Len(ls) |-> HeadingsIn(ls[i])]

\* the lines (by number) that contain the heading of sec; hs = LineHeadings(ls)
LinesWith(hs, sec) == {i \in 1..Len(hs) : sec \in hs[i]}

HeadingLinesAt(hs) == {i \in 1..Len(hs) : hs[i] # {}}

\* a bullet line: a line that begins with '-' once its indentation is dropped
IsBullet(line) == StartsWith(Strip(line), "-")

IsBlank(line) == Strip(line) = ""

\* a bullet line without its leading '-' and blanks, trimmed
RECURSIVE Unbulleted(_)
Unbulleted(line) ==
    IF Len(line) > 0 /\ Char(line, 1) \in {"-", " "}
    THEN Unbulleted(IF Len(line) = 1 THEN "" ELSE SubSeq(line, 2, Len(line)))
    ELSE Strip(line)

\* the non-blank lines after the heading line of sec and before the next
\* heading line (or the end), in order, each without its bullet
BulletsUnder(ls, hs, sec) ==
    LET at == SetMin(LinesWith(hs, sec))
        later == {i \in HeadingLinesAt(hs) : i > at}
        stop == IF later = {} THEN Len(ls) + 1 ELSE SetMin(later)
        idx == SelectSeq([i \in 1..Len(ls) |-> i],
                         LAMBDA i : i > at /\ i < stop /\ ~IsBlank(ls[i]))
    IN  [k \in 1..Len(idx) |-> Unbulleted(Strip(ls[idx[k]]))]

\* every heading at most once, one heading a line, in canonical order
HeadingsInCanonicalOrder(hs) ==
    /\ \A i \in HeadingLinesAt(hs) : Cardinality(hs[i]) = 1
    /\ \A k \in 1..Len(HeadingOrder) : Cardinality(LinesWith(hs, HeadingOrder[k])) <= 1
    /\ \A j, k \in 1..Len(HeadingOrder) :
        (j < k /\ LinesWith(hs, HeadingOrder[j]) # {} /\ LinesWith(hs, HeadingOrder[k]) # {})
            => SetMin(LinesWith(hs, HeadingOrder[j])) < SetMin(LinesWith(hs, HeadingOrder[k]))

\* the six headings once each in canonical order, every other non-blank line
\* a bullet line
WellFormedSix(ls, hs) ==
    /\ HeadingsInCanonicalOrder(hs)
    /\ \A k \in 1..Len(HeadingOrder) : LinesWith(hs, HeadingOrder[k]) # {}
    /\ \A i \in 1..Len(ls) : hs[i] # {} \/ IsBlank(ls[i]) \/ IsBullet(ls[i])

\* C8: in a text with the six headings once each in canonical order and
\* otherwise only bullet lines, each list field is exactly the bullet lines
\* between its heading and the next heading (or the end), in order, each with
\* its leading '-' and blanks removed and trimmed.
C8_WellFormedSections ==
    ParsedResponse =>
        LET ls == SplitLines(summary_text)
            hs == LineHeadings(ls)
        IN  WellFormedSix(ls, hs) =>
                \A sec \in ListSections : result[sec] = BulletsUnder(ls, hs, sec)

\* C8 witness: six headings, sections of zero, one and two bullets
C8_Witness ==
    /\ ParsedResponse
    /\ WellFormedSix(SplitLines(summary_text), LineHeadings(SplitLines(summary_text)))
    /\ result.main_points = <<"x">>
    /\ result.key_insights = <<"done", "Ask  Bob">>
    /\ result.action_items_decisions = <<>>
    /\ Len(result.conclusions) = 2

\* where the heading phrase of the Overview line begins
OverviewPhraseAt(line) ==
    SetMin({p \in 1..(Len(line) - Len("overview:") + 1) :
                SubSeq(Lower(line), p, p + Len("overview:") - 1) = "overview:"})

\* a subset of the headings in canonical order: the Overview line, when there
\* is one, has no colon before its heading and carries the overview text after
\* it; every other non-blank line is a bullet line under a list heading
WellFormedSubset(ls, hs) ==
    /\ HeadingsInCanonicalOrder(hs)
    /\ \A i \in LinesWith(hs, "overview") :
            \A p \in 1..(OverviewPhraseAt(ls[i]) - 1) : Char(ls[i], p) # ":"
    /\ \A i \in 1..Len(ls) :
        \/ hs[i] # {}
        \/ IsBlank(ls[i])
        \/ /\ IsBullet(ls[i])
           /\ \E h \in 1..(i - 1) : hs[h] # {} /\ hs[h] \subseteq ListSections

\* the text of the Overview line after its heading phrase
AfterOverviewPhrase(line) ==
    LET from == OverviewPhraseAt(line) + Len("overview:")
    IN  IF from > Len(line) THEN "" ELSE SubSeq(line, from, Len(line))

CanonicalHeadingLine(sec) ==
    CASE sec = "main_points" -> "Main Points:"
      [] sec = "key_insights" -> "Key Insights:"
      [] sec = "action_items_decisions" -> "Action Items / Decisions:"
      [] sec = "open_questions_next_steps" -> "Open Questions / Next Steps:"
      [] sec = "conclusions" -> "Conclusions:"

Rebuilt(sec, items) ==
    Join("\n", <<CanonicalHeadingLine(sec)>> \o [i \in 1..Len(items) |-> "- " \o items[i]])

\* C10: parsing is idempotent per section: the list L a section got, written
\* back as its heading line and one bullet line '- ' + item per item, parses
\* to L again for that section.
C10_ReparseSameList ==
    ParsedResponse =>
        \A sec \in ListSections :
            LET again == ParseSummary(Rebuilt(sec, result[sec]))
            IN  ~again.raised /\ again.sections[sec] = result[sec]

-----------------------------------------------------------------------------
(* Properties of POST /transcribe *)

\* C2: a request whose transcription stage yields a non-empty transcript is
\* answered, after one summarization of that transcript, with the success
\* payload: the transcription, the summary record and the three durations;
\* summarization never starts before transcription has completed.
C2_SuccessPayload ==
    /\ summarize_calls > 0 => (transcribe_calls = 1 /\ transcription # "")
    /\ (h_pc = "responded" /\ transcription # "") =>
        /\ summarize_calls = 1
        /\ response.status = 200
        /\ response.transcription = transcription
        /\ DOMAIN response.summary = SummaryKeys
        /\ DOMAIN response.processing_time = {"transcription", "summarization", "total"}
        /\ response.processing_time.total =
             response.processing_time.transcription + response.processing_time.summarization

\* the transcription stage returned, and what it returned is the empty string
EmptyTranscript ==
    h_pc = "responded" /\ transcribe_calls = 1 /\ raised_by # "transcription"
        /\ transcription = ""

\* C3: a request whose transcription stage returns an empty transcript is
\* answered with status 400, and summarization is not invoked for it.
C3_EmptyTranscriptIs400 ==
    EmptyTranscript => (response.status = 400 /\ summarize_calls = 0)

\* C4: an exception raised by the transcription stage or by the summarization
\* stage is caught by the handler and answered with status 500 and the
\* exception's message as detail; the failed stage ran once, and a failed
\* transcription is not followed by summarization.
C4_StageExceptionIs500 ==
    /\ h_pc # "crashed"
    /\ transcribe_calls <= 1
    /\ summarize_calls <= 1
    /\ raised_by \in {"transcription", "summarization"} =>
        /\ h_pc = "responded"
        /\ response.status = 500
        /\ response.detail = h_exc.msg
        /\ raised_by = "transcription" => (transcribe_calls = 1 /\ summarize_calls = 0)
        /\ raised_by = "summarization" => (transcribe_calls = 1 /\ summarize_calls = 1)

\* C4 witness: inference failed and the wrapped message is the detail
C4_Witness ==
    /\ h_pc = "responded"
    /\ raised_by = "transcription"
    /\ response = ErrorResponse(TranscriptionFailed(PyException("RuntimeError", "Invalid data found")))
    /\ summarize_calls = 0

-----------------------------------------------------------------------------
(* Properties of TranscriptionService.transcribe *)

\* the call has returned or raised
Left(call) == call.pc \in {"returned", "raised"}

\* C11: when a transcribe call has returned or raised, the temporary file it
\* created no longer exists, whichever way the call ended.
C11_TempFileDeleted ==
    \A c \in Calls :
        (Left(t_calls[c]) /\ t_calls[c].tmp # 0) => t_calls[c].tmp \notin files

\* C12: in a sequence of calls made one after the other, every call that has
\* ended passed the size it was asked for to load_model, once, and when no
\* call is in progress no model is resident: model and model_size are unset.
C12_LoadsThenNothingResident ==
    /\ \A c \in Calls :
        Left(t_calls[c]) => t_calls[c].loads = <<t_calls[c].model_size>>
    /\ (\A c \in Calls : Outside(t_calls[c])) =>
        /\ ts_model = "none"
        /\ ts_model_size = "none"
        /\ resident = <<>>

\* C12 witness: a call that returned a transcript and a call whose inference
\* failed, for different sizes, and nothing resident after them
C12_Witness ==
    /\ \E c, d \in Calls :
        /\ t_calls[c].pc = "returned"
        /\ t_calls[c].value = "Hello world."
        /\ t_calls[c].used = t_calls[c].model_size
        /\ t_calls[d].pc = "raised"
        /\ t_calls[d].unloads = 1
        /\ t_calls[d].model_size # t_calls[c].model_size
    /\ ts_model = "none"
    /\ ts_model_size = "none"

\* C13: at every moment, with calls interleaving at the upload-read await, at
\* most one speech model object is alive in the service's memory.
C13_AtMostOneResident == Len(resident) <= 1

\* C14: a call in which model loading or inference raised leaves with an
\* exception whose message is 'Transcription failed: ' followed by the message
\* of the underlying exception, after unload_model was invoked.
C14_WrappedAfterUnload ==
    \A c \in Calls :
        t_calls[c].pc = "raised" =>
            /\ t_calls[c].exc.msg = "Transcription failed: " \o t_calls[c].cause.msg
            /\ t_calls[c].unloads >= 1

-----------------------------------------------------------------------------
(* Properties of SummarizationService.load_model *)

\* the request of entry i found the model in the listing or created it
Establishes(log, i) == log[i].ok

\* C15: once a load_model call has found the model by the listing check or
\* has created it, no later request of any load_model call is a POST to
\* /api/create.
C15_NeverCreatedAgain ==
    \A i, j \in 1..Len(lm_log) :
        (i < j /\ Establishes(lm_log, i)) => lm_log[j].req # "POST /api/create"

-----------------------------------------------------------------------------
(* Properties of the model selection *)

\* C16: a request that went through its summarization stage sent one
\* /api/generate request, and the model that request names is the LLM
\* identifier the request selected (llm_name, or its default).
C16_SelectedModelGenerates ==
    (h_pc = "responded" /\ summarize_calls = 1) =>
        /\ SummarizeArgs(llm_name, transcription)[1] = llm_name
        /\ Len(generate_requests) = 1
        /\ generate_requests[1].model = llm_name

-----------------------------------------------------------------------------
(* Properties of the parser's steps *)

\* the parser is about to process a line that contains a heading phrase
AtHeadingLine ==
    gs_pc = "parsing" /\ lines # <<>> /\ HeadingsIn(Head(lines)) # {}

\* C17: whenever a line containing a heading phrase is processed while the
\* current section is a list section, the accumulator is stored as that
\* section's field, the parser switches to a section whose heading the line
\* contains and the accumulator is reset, for every pair of previous section
\* and new heading; and after the last line the accumulator is stored as the
\* current section's field.
C17_FlushOnEveryHeading ==
    [][/\ (AtHeadingLine /\ current_section \in ListSections) =>
            /\ sections'[current_section] = current_points
            /\ current_section' \in HeadingsIn(Head(lines))
            /\ current_points' = <<>>
       /\ (gs_pc = "parsing" /\ lines = <<>> /\ current_section \in ListSections) =>
            result'[current_section] = current_points]_vars

\* the parser is about to process a non-blank line without a heading phrase
AtPlainLine ==
    gs_pc = "parsing" /\ lines # <<>> /\ ~IsBlank(Head(lines))
        /\ HeadingsIn(Head(lines)) = {}

\* C18: while the current section is overview, every non-blank line without a
\* heading phrase is appended to the overview text after a single space,
\* whatever the overview text is at that point (an empty text may take the
\* line with or without the space); while the current section is a list
\* section, every such line that is not a bullet becomes, trimmed, one more
\* item of the accumulator.
C18_PlainLineAppended ==
    [][AtPlainLine =>
        /\ current_section = "overview" =>
            \/ sections'.overview = sections.overview \o " " \o Strip(Head(lines))
            \/ sections.overview = "" /\ sections'.overview = Strip(Head(lines))
        /\ (current_section \in ListSections /\ ~IsBullet(Head(lines))) =>
            current_points' = Append(current_points, Strip(Head(lines)))]_vars

\* the parser is about to process a line that contains 'overview:'
AtOverviewLine ==
    gs_pc = "parsing" /\ lines # <<>> /\ "overview" \in HeadingsIn(Head(lines))

\* the text of the line after its first colon
RemainderAfterFirstColon(line) ==
    LET p == SetMin({q \in 1..Len(line) : Char(line, q) = ":"})
    IN  IF p = Len(line) THEN "" ELSE SubSeq(line, p + 1, Len(line))

\* C19: processing a line that contains 'overview:' (in any case) sets the
\* overview text to the trimmed remainder of the line after its first colon
\* and the current section to overview, adds nothing of the line to a list
\* field (a list field is left as it was, or takes the accumulator of the
\* section that ends), and raises no exception.
C19_OverviewLineSetsText ==
    [][AtOverviewLine =>
        /\ gs_pc' = "parsing"
        /\ exc' = NoException
        /\ sections'.overview = Strip(RemainderAfterFirstColon(Head(lines)))
        /\ current_section' = "overview"
        /\ current_points' = <<>>
        /\ \A sec \in ListSections :
            sections'[sec] = (IF sec = current_section THEN current_points
                              ELSE sections[sec])]_vars

\* C19 witness: the line '  overview:  a: b  ', which holds two colons, has
\* just been processed
C19_Witness ==
    /\ gs_pc = "parsing"
    /\ Len(lines) < Len(SplitLines(summary_text))
    /\ current_section = "overview"
    /\ sections.overview = "a: b"
    /\ current_points = <<>>

-----------------------------------------------------------------------------
(* Properties of the parse result under edits of the text *)

\* empty and whitespace-only lines
BlankLines == {"", " \t", "\r"}

\* a line made of blanks only, or empty
OnlyBlanks(line) ==
    \A p \in 1..Len(line) : Char(line, p) \in {" ", "\t", "\r", "\f"}

InsertAt(ls, i, x) == SubSeq(ls, 1, i) \o <<x>> \o SubSeq(ls, i + 1, Len(ls))

RemoveAt(ls, i) == SubSeq(ls, 1, i - 1) \o SubSeq(ls, i + 1, Len(ls))

\* the text parses, without an exception, to the overview and the five lists
\* of record r, and to itself as full_text
ParsesLike(full, r) ==
    LET p == ParseSummary(full)
    IN  /\ ~p.raised
        /\ p.sections.overview = r.overview
        /\ \A sec \in ListSections : p.sections[sec] = r[sec]
        /\ p.sections.full_text = full

\* C20: a blank line inserted at any position of a response text, or a blank
\* line removed from it, leaves the overview and the five lists of the parse
\* result unchanged; full_text is the edited text.
C20_BlankLinesIgnored ==
    ParsedResponse =>
        LET ls == SplitLines(summary_text)
        IN  /\ \A i \in 0..Len(ls), b \in BlankLines :
                ParsesLike(Join("\n", InsertAt(ls, i, b)), result)
            /\ \A i \in 1..Len(ls) :
                OnlyBlanks(ls[i]) => ParsesLike(Join("\n", RemoveAt(ls, i)), result)

\* C20 witness: a text with a whitespace-only line between a heading and a
\* bullet of its section
C20_Witness ==
    /\ ParsedResponse
    /\ summary_text = "Main Points:\n \t\n- - Fix bug "
    /\ result.main_points = <<"Fix bug">>

-----------------------------------------------------------------------------
(* Properties of heading detection *)

\* the section, first in the order of the heading phrases, whose phrase the
\* line contains
FirstInOrder(line) ==
    HeadingOrder[SetMin({k \in 1..Len(HeadingOrder) :
                            HeadingOrder[k] \in HeadingsIn(line)})]

\* C21: a bullet line that contains a heading phrase, in any case and at any
\* place of the line, is treated as that heading: processing it switches the
\* current section to a section whose phrase it contains and resets the
\* accumulator, and no list field takes an item from the line (a list field
\* is left as it was or takes the accumulator of the section that ends).
C21_BulletWithHeadingSwitches ==
    [][(AtHeadingLine /\ IsBullet(Head(lines))) =>
        /\ gs_pc' = "parsing"
        /\ current_section' \in HeadingsIn(Head(lines))
        /\ current_points' = <<>>
        /\ \A sec \in ListSections :
            sections'[sec] \in {sections[sec], current_points}]_vars

\* C21 witness: the bullet '- see Conclusions: above' ended a Main Points
\* section of one item and is in none of the lists
C21_Witness ==
    /\ ParsedResponse
    /\ summary_text = "Main Points:\n-\t- y\n- see Conclusions: above"
    /\ current_section = "conclusions"
    /\ result.main_points = <<"- y">>
    /\ result.conclusions = <<>>

-----------------------------------------------------------------------------
(* Properties of the pipeline's attempts *)

\* C22: nothing is retried: one generate_summary call sends at most one
\* /api/generate request, and one POST /transcribe request makes at most one
\* transcription attempt and at most one summarization attempt, whatever
\* fails.
C22_NoRetry ==
    /\ requests <= 1
    /\ transcribe_calls <= 1
    /\ summarize_calls <= 1
    /\ Len(generate_requests) <= 1
    /\ (gs_pc = "returned" /\ text # "") => requests = 1
    /\ raised_by = "transcription" => (transcribe_calls = 1 /\ summarize_calls = 0)
    /\ raised_by = "summarization" => summarize_calls = 1

\* C22 witness: the connection to the LLM server failed and the call returned
\* the error record after its one request
C22_Witness ==
    /\ gs_pc = "returned"
    /\ reply.kind = "raise"
    /\ requests = 1
    /\ result.overview = "Error in summary generation: Connection refused"

-----------------------------------------------------------------------------
(* Properties of interleaved transcribe calls *)

\* C23: with calls interleaving at the upload-read await, every call that
\* passed its load check and got to line 44 ran inference on a loaded model
\* of the size it asked for: no call failed for want of a model, and none ran
\* on a model of another size, through another call's load or unload.
C23_InferenceOnRequestedModel ==
    \A c \in Calls :
        (Left(t_calls[c]) /\ t_calls[c].tmp # 0) =>
            /\ t_calls[c].cause # NoModelException
            /\ t_calls[c].used # "none" => t_calls[c].used = t_calls[c].model_size

-----------------------------------------------------------------------------
(* Properties of where the list elements come from *)

\* the non-blank lines without a heading phrase that follow line h with no
\* heading line in between
RunAfter(ls, hs, h) ==
    {i \in (h + 1)..Len(ls) :
        /\ ~IsBlank(ls[i])
        /\ \A j \in (h + 1)..i : hs[j] = {}}

\* the element a line gives: the line trimmed, a bullet line without its
\* leading '-' and blanks
ItemOf(line) == IF IsBullet(line) THEN Unbulleted(Strip(line)) ELSE Strip(line)

\* the elements of the lines of `sub`, in input order
ItemsOf(ls, sub) ==
    LET idx == SelectSeq([i \in 1..Len(ls) |-> i], LAMBDA i : i \in sub)
    IN  [k \in 1..Len(idx) |-> ItemOf(ls[idx[k]])]

\* field sec of record r is made, in order, of elements of distinct lines of
\* the run that follows heading line h
FromRun(ls, hs, r, sec, h) ==
    \E sub \in SUBSET RunAfter(ls, hs, h) : r[sec] = ItemsOf(ls, sub)

\* the non-empty fields among sections k.. of ListSectionOrder each come from
\* the run after a heading line of their own section, no two fields from the
\* same run (taken: the heading lines whose runs are used already)
RECURSIVE Provenance(_, _, _, _, _)
Provenance(ls, hs, r, k, taken) ==
    IF k > Len(ListSectionOrder) THEN TRUE
    ELSE LET sec == ListSectionOrder[k]
         IN  IF r[sec] = <<>> THEN Provenance(ls, hs, r, k + 1, taken)
             ELSE \E h \in LinesWith(hs, sec) \ taken :
                    /\ FromRun(ls, hs, r, sec, h)
                    /\ Provenance(ls, hs, r, k + 1, taken \cup {h})

\* C24: in every parse result the elements of each list field come, in input
\* order, from distinct non-blank lines without a heading phrase that follow
\* a heading line of that section with no heading line in between; the runs
\* of different fields are different, so no line gives an element to two
\* fields, and a line before the first heading gives none.
C24_ElementsFollowTheirHeading ==
    ParsedResponse =>
        LET ls == SplitLines(summary_text)
            hs == LineHeadings(ls)
        IN  Provenance(ls, hs, result, 1, {})

\* C24 witness: a bullet before the first heading, a bullet under Overview,
\* and two list sections with elements
C24_Witness ==
    /\ ParsedResponse
    /\ SplitLines(summary_text)[1] = "- early"
    /\ result.overview = "Team synced. - stray"
    /\ result.main_points = <<"x">>
    /\ result.key_insights = <<"done", "Ask  Bob">>

-----------------------------------------------------------------------------
(* Properties of repeated headings *)

\* the lines the parser takes as the heading of sec: those whose first
\* heading phrase, in the order of the phrases, is the one of sec
TakenAs(ls, hs, sec) ==
    {i \in 1..Len(ls) : hs[i] # {} /\ FirstInOrder(ls[i]) = sec}

-----------------------------------------------------------------------------
(* Properties of lines with several heading phrases *)

\* the parser is about to process a line that contains more than one heading
\* phrase
AtMultiHeadingLine ==
    /\ gs_pc = "parsing"
    /\ lines # <<>>
    /\ Cardinality(HeadingsIn(Head(lines))) > 1

\* C26: when a line contains more than one heading phrase, processing it makes
\* one section switch: the current section becomes the section whose phrase
\* comes first in the order overview, main points, key insights, action items
\* / decisions, open questions / next steps, conclusions, wherever the phrases
\* stand in the line; the accumulator is reset once and no list field other
\* than the one of the section that ends changes.
C26_FirstPhraseInOrderWins ==
    [][AtMultiHeadingLine =>
        /\ gs_pc' = "parsing"
        /\ lines' = Tail(lines)
        /\ current_section' = FirstInOrder(Head(lines))
        /\ current_points' = <<>>
        /\ \A sec \in ListSections :
            sections'[sec] # sections[sec] => sec = current_section]_vars

\* C26 witness: 'Conclusions: main points: x' was taken as the Main Points
\* heading though 'Conclusions:' stands first in the line; it ended a
\* Conclusions section of one item
C26_Witness ==
    /\ ParsedResponse
    /\ summary_text = "- see Conclusions: above\n- - Fix bug \nConclusions: main points: x"
    /\ current_section = "main_points"
    /\ result.conclusions = <<"Fix bug">>
    /\ result.main_points = <<>>

=============================================================================
